---- MODULE Spec2Model ----
(***************************************************************************)
(* A model of sinabs' ExpLeak layer (sinabs/layers/exp_leak.py), of the    *)
(* StatefulLayer state lifecycle it builds on, and of the Heaviside        *)
(* surrogate gradient (sinabs/activation/surrogate_gradient_fn.py).        *)
(*                                                                         *)
(* Real numbers are fixed-point integers: the real r is the integer        *)
(* r * SCALE, products and quotients are rounded to the nearest unit.      *)
(* Tensors are records [shape, data]; data maps index tuples to values.    *)
(***************************************************************************)
EXTENDS Integers, Sequences, FiniteSets, TLC

\* ------------------------------------------------------------------ bounds
SCALE == 1000
MaxTau == 2
MaxBatch == 2
MaxDim == 2
MaxTime == 2
MaxCalls == 2
MaxSeed == 2
MaxResets == 1
MaxTauLeak == 10
MaxDrive == 3
MaxVmem == 3
MaxLen == 2
MaxWindow == 2
MaxThreshold == 2
MaxMutations == 2
SqueezeSize == 10

\* ------------------------------------------------------- fixed-point reals
Abs(n) == IF n < 0 THEN -n ELSE n

Sgn(n) == IF n < 0 THEN -1 ELSE IF n > 0 THEN 1 ELSE 0

\* n / d rounded to the nearest integer (d > 0)
RoundDiv(n, d) == Sgn(n) * ((2 * Abs(n) + d) \div (2 * d))

\* a * b of two fixed-point reals
FMul(a, b) == RoundDiv(a * b, SCALE)

\* a / b of two fixed-point reals, b # 0
FDiv(a, b) == Sgn(b) * RoundDiv(a * SCALE, Abs(b))

\* the k-th term x^k / k! of the exponential series, x >= 0 fixed-point
RECURSIVE ExpTerm(_, _)
ExpTerm(x, k) == IF k = 0 THEN SCALE ELSE RoundDiv(ExpTerm(x, k - 1) * x, k * SCALE)

ExpTerms == 12

RECURSIVE ExpSum(_, _)
ExpSum(x, k) ==
    IF k > ExpTerms THEN 0
    ELSE (IF k % 2 = 0 THEN 1 ELSE -1) * ExpTerm(x, k) + ExpSum(x, k + 1)

\* torch.exp(y): the series of exp(-x) at x = -y
TorchExp(y) == ExpSum(-y, 0)

\* ----------------------------------------------------------------- tensors
\* Optional values: None is the empty sequence, a value v is <<v>>
None == <<>>

Some(v) == <<v>>

\* the placeholder of a state buffer that has no shape yet
Uninit == [kind |-> "UninitializedBuffer", shape |-> <<>>, data |-> <<>>]

RECURSIVE Indices(_)
Indices(shape) ==
    IF shape = <<>> THEN {<<>>}
    ELSE {<<i>> \o r : i \in 1..Head(shape), r \in Indices(Tail(shape))}

Tensor(shape, f(_)) == [kind |-> "Tensor", shape |-> shape, data |-> [i \in Indices(shape) |-> f(i)]]

Zeros(shape) == Tensor(shape, LAMBDA i : 0)

\* input_data[:, step]
Slice(x, step) ==
    LET sh == <<x.shape[1]>> \o SubSeq(x.shape, 3, Len(x.shape))
    IN  [kind |-> "Tensor", shape |-> sh,
         data |-> [i \in Indices(sh) |-> x.data[<<i[1], step>> \o Tail(i)]]]

\* torch.stack(list, 1) of a non-empty list of equally shaped tensors
Stack(outs) ==
    LET s0 == outs[1].shape
        sh == <<s0[1], Len(outs)>> \o Tail(s0)
    IN  [kind |-> "Tensor", shape |-> sh,
         data |-> [i \in Indices(sh) |-> outs[i[2]].data[<<i[1]>> \o SubSeq(i, 3, Len(i))]]]

\* shape s left-padded with 1s to rank n (broadcasting aligns trailing axes)
PadShape(s, n) == [k \in 1..n |-> IF k <= n - Len(s) THEN 1 ELSE s[k - (n - Len(s))]]

MaxOf(a, b) == IF a >= b THEN a ELSE b

Broadcastable(s1, s2) ==
    LET n == MaxOf(Len(s1), Len(s2))
        p1 == PadShape(s1, n)
        p2 == PadShape(s2, n)
    IN  \A k \in 1..n : p1[k] = p2[k] \/ p1[k] = 1 \/ p2[k] = 1

BroadcastShape(s1, s2) ==
    LET n == MaxOf(Len(s1), Len(s2))
        p1 == PadShape(s1, n)
        p2 == PadShape(s2, n)
    IN  [k \in 1..n |-> MaxOf(p1[k], p2[k])]

\* the element of tensor t that index i of a broadcast result reads
BroadcastAt(t, i) ==
    LET m == Len(t.shape)
        off == Len(i) - m
    IN  t.data[[k \in 1..m |-> IF t.shape[k] = 1 THEN 1 ELSE i[k + off]]]

\* a + b of two tensors; defined when Broadcastable(a.shape, b.shape)
TensorAdd(a, b) ==
    LET sh == BroadcastShape(a.shape, b.shape)
    IN  [kind |-> "Tensor", shape |-> sh,
         data |-> [i \in Indices(sh) |-> BroadcastAt(a, i) + BroadcastAt(b, i)]]

\* scalar * tensor
TensorScale(c, t) == [kind |-> "Tensor", shape |-> t.shape, data |-> [i \in DOMAIN t.data |-> FMul(c, t.data[i])]]

\* torch.nn.functional.relu(t - c) + c for a scalar c
ReluFloor(t, c) ==
    [kind |-> "Tensor", shape |-> t.shape,
     data |-> [i \in DOMAIN t.data |-> MaxOf(t.data[i] - c, 0) + c]]

\* ---------------------------------------------------------- StatefulLayer
is_state_initialised(L) == L.v_mem.kind # "UninitializedBuffer"

state_has_shape(L, shape) == L.v_mem.kind = "Tensor" /\ L.v_mem.shape = shape

\* a random tensor: every entry is drawn from (0, 1), the entries differ
RandTensor(shape, seed) ==
    [kind |-> "Tensor", shape |-> shape,
     data |-> [i \in Indices(shape) |->
                 1 + ((seed * 379 + (IF i = <<>> THEN 0 ELSE i[1] * 101 + Len(i) * 53 + i[Len(i)] * 211))
                      % (SCALE - 1))]]

init_state_with_shape(L, shape, randomize, seed) ==
    [L EXCEPT !.v_mem = IF randomize THEN RandTensor(shape, seed) ELSE Zeros(shape)]

\* mutants of reset_states: the guard on initialisation is missing; the
\* state is dropped back to the placeholder instead of being refilled
reset_states_Unguarded(L, randomize, seed) ==
    [L EXCEPT !.v_mem = IF randomize THEN RandTensor(L.v_mem.shape, seed)
                                     ELSE Zeros(L.v_mem.shape)]

reset_states_Forget(L, randomize, seed) == [L EXCEPT !.v_mem = Uninit]

reset_states(L, randomize, seed) ==
    IF is_state_initialised(L)
    THEN [L EXCEPT !.v_mem = IF randomize THEN RandTensor(L.v_mem.shape, seed)
                                          ELSE Zeros(L.v_mem.shape)]
    ELSE L

\* StatefulLayer._param_dict: the base class contributes no entries
BaseParamDict == [k \in {} |-> None]

\* ---------------------------------------------------------------- ExpLeak
\* an attribute that was never set on the module
Absent == <<>>

\* ExpLeak.__init__(tau_leak, shape, train_alphas, threshold_low)
ExpLeakInit(tau_leak, shape, train_alphas, threshold_low) ==
    LET L0 == [v_mem |-> Uninit,
               alpha_leak |-> IF train_alphas THEN Some(TorchExp(FDiv(-SCALE, tau_leak))) ELSE Absent,
               tau_leak |-> IF train_alphas THEN Absent ELSE Some(tau_leak),
               threshold_low |-> threshold_low,
               train_alphas |-> train_alphas]
    IN  IF shape # None /\ shape[1] # <<>>
        THEN init_state_with_shape(L0, shape[1], FALSE, 0)
        ELSE L0

\* mutant of alpha_leak_calculated: the sign of the exponent is lost
alpha_leak_calculated_SignLost(L) ==
    IF L.train_alphas THEN L.alpha_leak[1] ELSE TorchExp(FDiv(SCALE, L.tau_leak[1]))

alpha_leak_calculated(L) ==
    IF L.train_alphas THEN L.alpha_leak[1] ELSE TorchExp(FDiv(-SCALE, L.tau_leak[1]))

\* Python truthiness of self.threshold_low: None and 0 are false
ThresholdLowTruthy(L) == L.threshold_low # None /\ L.threshold_low[1] # 0

\* mutant of ForwardStep: the input is added without the factor (1 - alpha)
ForwardStep_InputUnscaled(L, alpha, v, xs) ==
    LET v1 == TensorAdd(TensorScale(alpha, v), xs)
    IN  IF ThresholdLowTruthy(L) THEN ReluFloor(v1, L.threshold_low[1]) ELSE v1

\* one pass of the loop body of forward, lines 53-59
ForwardStep(L, alpha, v, xs) ==
    LET v1 == TensorAdd(TensorScale(alpha, v), TensorScale(SCALE - alpha, xs))
    IN  IF ThresholdLowTruthy(L) THEN ReluFloor(v1, L.threshold_low[1]) ELSE v1

\* the loop of forward from time step `step` on; acc = [v, outs, err]
RECURSIVE ForwardLoop(_, _, _, _, _)
ForwardLoop(L, alpha, x, step, acc) ==
    IF step > x.shape[2] \/ acc.err THEN acc
    ELSE LET xs == Slice(x, step)
         IN  IF ~Broadcastable(acc.v.shape, xs.shape)
             THEN [acc EXCEPT !.err = TRUE]
             ELSE LET v2 == ForwardStep(L, alpha, acc.v, xs)
                  IN  ForwardLoop(L, alpha, x, step + 1,
                                  [v |-> v2, outs |-> Append(acc.outs, v2), err |-> FALSE])

\* (batch_size, *trailing_dim) of an input of shape (batch, time, *dims)
StateShapeOf(x) == <<x.shape[1]>> \o SubSeq(x.shape, 3, Len(x.shape))

\* mutants of NeedsInit: the shape is never compared; the state is always reallocated
NeedsInit_OnlyUninit(L, shape) == ~is_state_initialised(L)

NeedsInit_Always(L, shape) == TRUE

\* the condition of line 45
NeedsInit(L, shape) == ~is_state_initialised(L) \/ ~state_has_shape(L, shape)

\* ExpLeak.forward(input_data): the layer afterwards, the value returned or
\* the exception raised, and whether the state was (re)initialised
ForwardOp(L, x) ==
    LET shape == StateShapeOf(x)
        reinit == NeedsInit(L, shape)
        L1 == IF reinit THEN init_state_with_shape(L, shape, FALSE, 0) ELSE L
        alpha == alpha_leak_calculated(L1)
        r == ForwardLoop(L1, alpha, x, 1, [v |-> L1.v_mem, outs |-> <<>>, err |-> FALSE])
        L2 == [L1 EXCEPT !.v_mem = r.v]
    IN  IF r.err
        THEN [layer |-> L2, status |-> "shape_error", out |-> None, reinit |-> reinit]
        ELSE IF r.outs = <<>>
        THEN [layer |-> L2, status |-> "stack_error", out |-> None, reinit |-> reinit]
        ELSE [layer |-> L2, status |-> "ok", out |-> Some(Stack(r.outs)), reinit |-> reinit]

\* ExpLeak._param_dict: the dictionary, or the AttributeError that reading an
\* attribute that was never set raises
ParamDict(L) ==
    IF L.tau_leak = Absent
    THEN [status |-> "AttributeError", dict |-> BaseParamDict]
    ELSE [status |-> "ok", dict |-> ("tau_leak" :> L.tau_leak[1]) @@ BaseParamDict]

\* ExpLeak(**param_dict): arguments missing from the dictionary take the
\* defaults of __init__
ExpLeakFromDict(d) ==
    ExpLeakInit(d["tau_leak"],
                IF "shape" \in DOMAIN d THEN d["shape"] ELSE None,
                IF "train_alphas" \in DOMAIN d THEN d["train_alphas"] ELSE FALSE,
                IF "threshold_low" \in DOMAIN d THEN d["threshold_low"] ELSE None)

\* ------------------------------------------------------ surrogate gradient
\* float results: a number, an infinity (v is its sign) or not-a-number
Num(n) == [k |-> "num", v |-> n]

Inf(sign) == [k |-> "inf", v |-> sign]

NaN == [k |-> "nan", v |-> 0]

\* IEEE division a / b
FloatDiv(a, b) ==
    IF b # 0 THEN Num(FDiv(a, b))
    ELSE IF a = 0 THEN NaN ELSE Inf(Sgn(a))

\* mutant of Heaviside: the comparison is strict
Heaviside_Strict(window, v_mem, threshold) ==
    [kind |-> "Tensor", shape |-> v_mem.shape,
     data |-> [i \in DOMAIN v_mem.data |->
                 FloatDiv(IF v_mem.data[i] > threshold - window THEN SCALE ELSE 0, threshold)]]

\* Heaviside(window).__call__(v_mem, threshold)
Heaviside(window, v_mem, threshold) ==
    [kind |-> "Tensor", shape |-> v_mem.shape,
     data |-> [i \in DOMAIN v_mem.data |->
                 FloatDiv(IF v_mem.data[i] >= threshold - window THEN SCALE ELSE 0, threshold)]]

\* ------------------------------------------------------------ input spaces
TauSet == {k * SCALE : k \in 1..MaxTau}

ThresholdLowSet == {None, Some(-SCALE), Some(0), Some(SCALE \div 2)}

Dims == {<<>>, <<MaxDim>>}

StateShapes == {<<b>> \o d : b \in 1..MaxBatch, d \in Dims}

\* entries of one time slice differ in sign from one neuron to the next
Weight(i) == IF (i[1] + (IF Len(i) > 2 THEN i[3] ELSE 0)) % 2 = 0 THEN -1 ELSE 1

InputTensor(b, d, xs) == Tensor(<<b, Len(xs)>> \o d, LAMBDA i : Weight(i) * xs[i[2]])

InputVal(k) == CASE k % 3 = 0 -> -2 * SCALE [] k % 3 = 1 -> 0 [] OTHER -> SCALE

\* the input sequences: every length up to MaxTime, every starting value
InputSeqs == {[t \in 1..T |-> InputVal(k + t)] : T \in 0..MaxTime, k \in 0..2}

Inputs == {InputTensor(b, d, xs) : b \in 1..MaxBatch, d \in Dims, xs \in InputSeqs}

\* ------------------------------------------------------------------- state
\* layer, hist, ncalls, nresets: one ExpLeak instance, its last two operations
\* and the numbers of forward calls and resets made on it.
\* sg: one call of a surrogate gradient function.
\* cp: a layer object, its deep copy and its parameter dictionary, with the
\* heap of parameter and buffer objects they refer to.
VARIABLES layer, hist, ncalls, nresets, sg, cp

vars == <<layer, hist, ncalls, nresets, sg, cp>>

NoObjects ==
    [heap |-> <<>>, before |-> <<>>, orig |-> None, copy |-> None, pd |-> None,
     rebuilt |-> None, last |-> "none", nmut |-> 0]

NoSurrogateCall == [window |-> 0, v_mem |-> Uninit, threshold |-> 0, out |-> None]

\* the record kept of one operation: the layer before it and what it did
Remember(pre, name, x, res, randomize) ==
    [pre |-> pre, name |-> name, x |-> x, status |-> res.status, out |-> res.out,
     reinit |-> res.reinit, randomize |-> randomize]

NoResult == [status |-> "ok", out |-> None, reinit |-> FALSE]

Push(h, e) == IF h = <<>> THEN <<e>> ELSE <<e, h[1]>>

Init ==
    /\ \E tau \in TauSet, shape \in {None, Some(<<1, MaxDim>>)},
          ta \in BOOLEAN, tl \in ThresholdLowSet :
          layer = ExpLeakInit(tau, shape, ta, tl)
    /\ hist = <<>>
    /\ ncalls = 0
    /\ nresets = 0
    /\ sg = NoSurrogateCall
    /\ cp = NoObjects

\* layer(input_data) for some input_data of the set X
ForwardWith(X) ==
    /\ ncalls < MaxCalls
    /\ \E x \in X :
          LET res == ForwardOp(layer, x)
          IN  /\ layer' = res.layer
              /\ hist' = Push(hist, Remember(layer, "forward", Some(x), res, FALSE))
    /\ ncalls' = ncalls + 1
    /\ UNCHANGED <<nresets, sg, cp>>

Forward == ForwardWith(Inputs)

\* layer.reset_states(randomize)
ResetStates ==
    /\ nresets < MaxResets
    /\ \E randomize \in BOOLEAN, seed \in 1..MaxSeed :
          /\ (~randomize => seed = 1)
          /\ layer' = reset_states(layer, randomize, seed)
          /\ hist' = Push(hist, Remember(layer, "reset_states", None, NoResult, randomize))
    /\ nresets' = nresets + 1
    /\ UNCHANGED <<ncalls, sg, cp>>

Next == Forward \/ ResetStates

Spec == Init /\ [][Next]_vars

\* ------------------------------------------------------ claims on the layer
Called(name) == hist # <<>> /\ hist[1].name = name

AllEntries(t, P(_)) == \A i \in DOMAIN t.data : P(t.data[i])

\* C1: after every forward call, whatever the shapes of this and of earlier
\* inputs, no shape error was raised and the state is initialised with the
\* shape (batch, *dims) of the input of that call.
C1_StateTracksInputShape ==
    Called("forward") =>
        /\ hist[1].status # "shape_error"
        /\ is_state_initialised(layer)
        /\ layer.v_mem.shape = StateShapeOf(hist[1].x[1])

\* two calls in a row with different batch sizes, the state has the later one
C1_Witness ==
    /\ Len(hist) = 2
    /\ hist[1].name = "forward" /\ hist[2].name = "forward"
    /\ hist[2].x[1].shape[1] = 1 /\ hist[1].x[1].shape[1] = 2
    /\ is_state_initialised(hist[1].pre) /\ hist[1].pre.v_mem.shape[1] = 1
    /\ layer.v_mem.shape[1] = 2

\* C2: reset_states on a layer whose state was never initialised changes
\* nothing: the state is still the uninitialised placeholder.
C2_ResetUninitialisedIsNoOp ==
    (Called("reset_states") /\ ~is_state_initialised(hist[1].pre)) =>
        /\ hist[1].status = "ok"
        /\ ~is_state_initialised(layer)
        /\ layer.v_mem = Uninit
        /\ layer = hist[1].pre

C2_Witness ==
    /\ Called("reset_states")
    /\ ~is_state_initialised(hist[1].pre)
    /\ ~is_state_initialised(layer)

\* C3: reset_states on an initialised layer keeps the state's shape and leaves
\* the layer initialised; with randomize=False every entry is zero, with
\* randomize=True some entry is nonzero.
C3_ResetKeepsShape ==
    (Called("reset_states") /\ is_state_initialised(hist[1].pre)) =>
        /\ is_state_initialised(layer)
        /\ layer.v_mem.shape = hist[1].pre.v_mem.shape
        /\ (~hist[1].randomize => AllEntries(layer.v_mem, LAMBDA v : v = 0))
        /\ (hist[1].randomize => ~AllEntries(layer.v_mem, LAMBDA v : v = 0))

\* a reset to zero of a state that a forward call had made nonzero
C3_Witness ==
    /\ Called("reset_states")
    /\ ~hist[1].randomize
    /\ is_state_initialised(hist[1].pre)
    /\ ~AllEntries(hist[1].pre.v_mem, LAMBDA v : v = 0)
    /\ Len(hist[1].pre.v_mem.shape) = 2
    /\ AllEntries(layer.v_mem, LAMBDA v : v = 0)

\* C8 (as claimed): whenever threshold_low is a number, zero included, every
\* entry of v_mem and of the output is >= threshold_low after forward.
C8_ClampedWheneverConfigured ==
    (Called("forward") /\ hist[1].status = "ok" /\ layer.threshold_low # None) =>
        /\ AllEntries(layer.v_mem, LAMBDA v : v >= layer.threshold_low[1])
        /\ AllEntries(hist[1].out[1], LAMBDA v : v >= layer.threshold_low[1])

\* the state of one neuron after t steps of leak and integration from v0
RECURSIVE LeakIntegrate(_, _, _, _, _)
LeakIntegrate(alpha, v0, x, i, t) ==
    IF t = 0 THEN v0
    ELSE FMul(alpha, LeakIntegrate(alpha, v0, x, i, t - 1))
         + FMul(SCALE - alpha, x.data[<<i[1], t>> \o Tail(i)])

\* the state a forward call on x starts from, neuron i: the stored state when
\* its shape fits the input, zero on fresh state
StartState(pre, x, i) ==
    IF state_has_shape(pre, StateShapeOf(x)) THEN pre.v_mem.data[i] ELSE 0

\* what C9 says of the last call: the output has the input's shape, slice t
\* is the state after t steps of state = decay*state + (1-decay)*input[:, t],
\* and v_mem is the last slice
RecurrenceHolds ==
    LET x == hist[1].x[1]
        alpha == alpha_leak_calculated(layer)
    IN  /\ hist[1].status = "ok"
        /\ hist[1].out # None
        /\ hist[1].out[1].shape = x.shape
        /\ \A i \in Indices(StateShapeOf(x)) : \A t \in 1..x.shape[2] :
              hist[1].out[1].data[<<i[1], t>> \o Tail(i)]
                = LeakIntegrate(alpha, StartState(hist[1].pre, x, i), x, i, t)
        /\ layer.v_mem = Slice(hist[1].out[1], x.shape[2])

\* C9 (as claimed): every forward call returns the leak-and-integrate
\* recurrence of its input, in the input's shape.
C9_ForwardIsRecurrence == Called("forward") => RecurrenceHolds

\* C9 (amended): a forward call on an input with at least one time step, on a
\* layer without threshold_low, returns the leak-and-integrate recurrence of
\* its input in the input's shape, and v_mem is the last output slice.
C9_ForwardIsRecurrenceUnclamped ==
    (Called("forward") /\ hist[1].x[1].shape[2] >= 1 /\ layer.threshold_low = None)
        => RecurrenceHolds

\* two steps from a stored nonzero state on a layer without threshold_low
C9_Witness ==
    /\ Called("forward")
    /\ layer.threshold_low = None
    /\ hist[1].x[1].shape[2] = 2
    /\ state_has_shape(hist[1].pre, StateShapeOf(hist[1].x[1]))
    /\ ~AllEntries(hist[1].pre.v_mem, LAMBDA v : v = 0)
    /\ hist[1].status = "ok"
    /\ ~AllEntries(hist[1].out[1], LAMBDA v : v = 0)

\* torch.cat((a, b), 1)
ConcatTime(a, b) ==
    LET sh == <<a.shape[1], a.shape[2] + b.shape[2]>> \o SubSeq(a.shape, 3, Len(a.shape))
    IN  Tensor(sh, LAMBDA i : IF i[2] <= a.shape[2] THEN a.data[i]
                              ELSE b.data[<<i[1], i[2] - a.shape[2]>> \o SubSeq(i, 3, Len(i))])

\* two successful forward calls in a row on inputs of the same batch and dims
TwoCallsSameShape ==
    /\ Len(hist) = 2
    /\ hist[1].name = "forward" /\ hist[2].name = "forward"
    /\ hist[1].status = "ok" /\ hist[2].status = "ok"
    /\ StateShapeOf(hist[1].x[1]) = StateShapeOf(hist[2].x[1])

\* C10: two forward calls in a row on T1 and then T2 steps of the same batch
\* and dims give, concatenated along time, the output of one call on all
\* T1+T2 steps from the same starting state, and the same final v_mem; a call
\* whose input fits the stored state does not reinitialise it.
C10_StateCarriedAcrossCalls ==
    /\ TwoCallsSameShape =>
          LET whole == ForwardOp(hist[2].pre, ConcatTime(hist[2].x[1], hist[1].x[1]))
          IN  /\ whole.status = "ok"
              /\ whole.out[1] = ConcatTime(hist[2].out[1], hist[1].out[1])
              /\ whole.layer.v_mem = layer.v_mem
    /\ (Called("forward") /\ state_has_shape(hist[1].pre, StateShapeOf(hist[1].x[1])))
          => ~hist[1].reinit

\* the second call starts from the nonzero state the first one left
C10_Witness ==
    /\ TwoCallsSameShape
    /\ hist[2].x[1].shape[2] = 2 /\ hist[1].x[1].shape[2] = 1
    /\ ~AllEntries(hist[1].pre.v_mem, LAMBDA v : v = 0)
    /\ hist[1].pre.v_mem # layer.v_mem

\* ------------------------------------------------- the leak, step by step
\* time constants from 1/2 to MaxTauLeak in steps of 1/2
TauLeakSet == {(k * SCALE) \div 2 : k \in 1..(2 * MaxTauLeak)}

DriveInputs == {InputTensor(1, <<>>, <<k * (SCALE \div 2)>>) : k \in (-MaxDrive)..MaxDrive}

ZeroInput == InputTensor(1, <<>>, <<0>>)

InitLeak ==
    /\ \E tau \in TauLeakSet, ta \in BOOLEAN, tl \in ThresholdLowSet :
          layer = ExpLeakInit(tau, Some(<<1>>), ta, tl)
    /\ hist = <<>>
    /\ ncalls = 0
    /\ nresets = 0
    /\ sg = NoSurrogateCall
    /\ cp = NoObjects

\* one time step on an input that moves the state away from zero
LeakDrive == ForwardWith(DriveInputs)

\* one time step with zero input
LeakZeroStep == ForwardWith({ZeroInput})

NextLeak == LeakDrive \/ LeakZeroStep

SpecLeak == InitLeak /\ [][NextLeak]_vars

DecayInUnitInterval ==
    LET alpha == alpha_leak_calculated(layer) IN 0 < alpha /\ alpha < SCALE

ZeroStepDone ==
    /\ Called("forward")
    /\ hist[1].status = "ok"
    /\ hist[1].x[1] = ZeroInput

ZeroStepShrinks ==
    \A i \in DOMAIN layer.v_mem.data :
        Abs(layer.v_mem.data[i]) <= Abs(StartState(hist[1].pre, hist[1].x[1], i))

\* C6 (as claimed): the decay factor exp(-1/tau) lies strictly between 0 and
\* 1, and on every layer configuration a time step with zero input leaves no
\* state entry with a larger absolute value than before.
C6_DecayShrinksState ==
    /\ DecayInUnitInterval
    /\ ZeroStepDone => ZeroStepShrinks

\* C6 (amended): the decay factor lies strictly between 0 and 1, and on a
\* layer whose threshold_low is unset or <= 0 a time step with zero input
\* leaves no state entry with a larger absolute value than before.
C6_DecayShrinksStateNoPositiveFloor ==
    /\ DecayInUnitInterval
    /\ (ZeroStepDone /\ (layer.threshold_low = None \/ layer.threshold_low[1] <= 0))
          => ZeroStepShrinks

\* a zero-input step that made a negative state strictly smaller in size on
\* a layer with a negative floor
C6_Witness ==
    /\ ZeroStepDone
    /\ layer.threshold_low # None /\ layer.threshold_low[1] < 0
    /\ hist[1].pre.v_mem.data[<<1>>] < 0
    /\ Abs(layer.v_mem.data[<<1>>]) < Abs(hist[1].pre.v_mem.data[<<1>>])

\* ------------------------------------------ the Heaviside surrogate gradient
Halves(lo, hi) == {k * (SCALE \div 2) : k \in lo..hi}

VmemTensors ==
    UNION {{[kind |-> "Tensor", shape |-> <<n>>, data |-> [i \in Indices(<<n>>) |-> f[i[1]]]] :
              f \in [1..n -> Halves(-MaxVmem, MaxVmem)]} : n \in 1..MaxLen}

InitHeaviside ==
    /\ layer = ExpLeakInit(SCALE, None, FALSE, None)
    /\ hist = <<>>
    /\ ncalls = 0
    /\ nresets = 0
    /\ \E w \in Halves(-1, MaxWindow), v \in VmemTensors, th \in Halves(-1, MaxThreshold) :
          sg = [window |-> w, v_mem |-> v, threshold |-> th, out |-> None]
    /\ cp = NoObjects

\* Heaviside(window)(v_mem, threshold)
HeavisideCall ==
    /\ sg.out = None
    /\ sg' = [sg EXCEPT !.out = Some(Heaviside(sg.window, sg.v_mem, sg.threshold))]
    /\ UNCHANGED <<layer, hist, ncalls, nresets, cp>>

NextHeaviside == HeavisideCall

SpecHeaviside == InitHeaviside /\ [][NextHeaviside]_vars

\* 1/threshold as a float
OneOver(th) == IF th = 0 THEN Inf(1) ELSE Num(FDiv(SCALE, th))

HeavisideIsIndicator ==
    \A i \in DOMAIN sg.v_mem.data :
        /\ sg.v_mem.data[i] >= sg.threshold - sg.window => sg.out[1].data[i] = OneOver(sg.threshold)
        /\ sg.v_mem.data[i] < sg.threshold - sg.window => sg.out[1].data[i] = Num(0)

HeavisideNonzeroFromThreshold ==
    \A i \in DOMAIN sg.v_mem.data :
        sg.v_mem.data[i] >= sg.threshold => sg.out[1].data[i] # Num(0)

\* C7 (as claimed): for every v_mem, threshold and window the result is
\* 1/threshold where v_mem >= threshold - window and 0 elsewhere, hence
\* nonzero at and above threshold.
C7_HeavisideIndicator ==
    sg.out # None => (HeavisideIsIndicator /\ HeavisideNonzeroFromThreshold)

\* C7 (amended): for every v_mem and window and every threshold other than 0
\* the result is 1/threshold where v_mem >= threshold - window and 0
\* elsewhere; when moreover window >= 0 it is nonzero at and above threshold.
C7_HeavisideIndicatorNonzeroThreshold ==
    (sg.out # None /\ sg.threshold # 0) =>
        /\ HeavisideIsIndicator
        /\ sg.window >= 0 => HeavisideNonzeroFromThreshold

\* one element inside the window and one below it
C7_Witness ==
    /\ sg.out # None
    /\ sg.threshold = SCALE /\ sg.window = SCALE \div 2
    /\ sg.v_mem.shape = <<2>>
    /\ sg.v_mem.data[<<1>>] = SCALE \div 2 /\ sg.v_mem.data[<<2>>] = 0
    /\ sg.out[1].data[<<1>>] = Num(SCALE) /\ sg.out[1].data[<<2>>] = Num(0)

\* ------------------------------------------------- objects and deep copies
\* A layer object holds references into a heap of parameter and buffer
\* objects; a reference is the index of the object in the heap.
Wrappers ==
    {[cls |-> "ExpLeak", batch_size |-> None, num_timesteps |-> None],
     [cls |-> "ExpLeakSqueeze", batch_size |-> Some(SqueezeSize), num_timesteps |-> None],
     [cls |-> "ExpLeakSqueeze", batch_size |-> None, num_timesteps |-> Some(SqueezeSize)]}

\* the object of a freshly constructed layer L, its parameters and buffers
\* placed at the end of the heap
NewObject(heap, L, w) ==
    LET h1 == Append(heap, L.v_mem)
        h2 == IF L.tau_leak = Absent THEN h1 ELSE Append(h1, L.tau_leak[1])
        h3 == IF L.alpha_leak = Absent THEN h2 ELSE Append(h2, L.alpha_leak[1])
    IN  [heap |-> h3,
         obj |-> [cls |-> w.cls, batch_size |-> w.batch_size, num_timesteps |-> w.num_timesteps,
                  threshold_low |-> L.threshold_low, train_alphas |-> L.train_alphas,
                  v_mem |-> Len(h1),
                  tau_leak |-> IF L.tau_leak = Absent THEN Absent ELSE Some(Len(h2)),
                  alpha_leak |-> IF L.alpha_leak = Absent THEN Absent ELSE Some(Len(h3))]]

\* the layer an object stands for, its references followed
View(heap, o) ==
    [v_mem |-> heap[o.v_mem],
     tau_leak |-> IF o.tau_leak = Absent THEN Absent ELSE Some(heap[o.tau_leak[1]]),
     alpha_leak |-> IF o.alpha_leak = Absent THEN Absent ELSE Some(heap[o.alpha_leak[1]]),
     threshold_low |-> o.threshold_low,
     train_alphas |-> o.train_alphas]

ParamRefs(o) ==
    (IF o.tau_leak = Absent THEN {} ELSE {o.tau_leak[1]})
        \cup (IF o.alpha_leak = Absent THEN {} ELSE {o.alpha_leak[1]})

BufferRefs(o) == {o.v_mem}

\* for b in layer.buffers(): b += 1; for p in layer.parameters(): p += 1
PlusOne(heap, o) ==
    [id \in DOMAIN heap |->
        IF id \in ParamRefs(o) THEN heap[id] + SCALE
        ELSE IF id \in BufferRefs(o) /\ heap[id].kind = "Tensor"
        THEN [heap[id] EXCEPT !.data = [i \in DOMAIN heap[id].data |-> heap[id].data[i] + SCALE]]
        ELSE heap[id]]

\* _param_dict of the object: the squeeze class adds its own two arguments
ObjectParamDict(heap, o) ==
    LET pd == ParamDict(View(heap, o))
    IN  IF o.cls = "ExpLeak" THEN pd
        ELSE [pd EXCEPT !.dict = ("batch_size" :> o.batch_size)
                                 @@ ("num_timesteps" :> o.num_timesteps) @@ pd.dict]

WrapperOf(d) ==
    IF "batch_size" \in DOMAIN d
    THEN [cls |-> "ExpLeakSqueeze", batch_size |-> d["batch_size"],
          num_timesteps |-> d["num_timesteps"]]
    ELSE [cls |-> "ExpLeak", batch_size |-> None, num_timesteps |-> None]

\* deepcopy(layer): a fresh instance built from _param_dict, into whose own
\* parameter and buffer objects the values of the original's are copied
DeepCopyOp(heap, o) ==
    LET pd == ObjectParamDict(heap, o)
    IN  IF pd.status # "ok"
        THEN [status |-> pd.status, heap |-> heap, copy |-> None]
        ELSE LET new == NewObject(heap, ExpLeakFromDict(pd.dict), WrapperOf(pd.dict))
                 c == new.obj
                 h == [id \in DOMAIN new.heap |->
                         IF id = c.v_mem THEN heap[o.v_mem]
                         ELSE IF c.tau_leak # Absent /\ o.tau_leak # Absent /\ id = c.tau_leak[1]
                         THEN heap[o.tau_leak[1]]
                         ELSE IF c.alpha_leak # Absent /\ o.alpha_leak # Absent /\ id = c.alpha_leak[1]
                         THEN heap[o.alpha_leak[1]]
                         ELSE new.heap[id]]
             IN  [status |-> "ok", heap |-> h, copy |-> Some(c)]

InitCopy ==
    /\ layer = ExpLeakInit(SCALE, None, FALSE, None)
    /\ hist = <<>>
    /\ ncalls = 0
    /\ nresets = 0
    /\ sg = NoSurrogateCall
    /\ \E tau \in TauSet, shape \in {None, Some(<<1, MaxDim>>)}, ta \in BOOLEAN,
          tl \in ThresholdLowSet, w \in Wrappers :
          LET new == NewObject(<<>>, ExpLeakInit(tau, shape, ta, tl), w)
          IN  cp = [NoObjects EXCEPT !.heap = new.heap, !.before = new.heap,
                                     !.orig = Some(new.obj)]

Others == <<layer, hist, ncalls, nresets, sg>>

\* the parameters and buffers of the original are modified in place
MutateOrig ==
    /\ cp.nmut < MaxMutations
    /\ cp' = [cp EXCEPT !.heap = PlusOne(cp.heap, cp.orig[1]), !.before = cp.heap,
                        !.last = "mutate_orig", !.nmut = @ + 1]
    /\ UNCHANGED Others

\* the parameters and buffers of the copy are modified in place
MutateCopy ==
    /\ cp.nmut < MaxMutations
    /\ cp.copy # None
    /\ cp' = [cp EXCEPT !.heap = PlusOne(cp.heap, cp.copy[1]), !.before = cp.heap,
                        !.last = "mutate_copy", !.nmut = @ + 1]
    /\ UNCHANGED Others

\* layer_copy = deepcopy(layer_orig)
DeepCopy ==
    /\ cp.copy = None
    /\ cp.last # "deepcopy_raised"
    /\ LET r == DeepCopyOp(cp.heap, cp.orig[1])
       IN  cp' = [cp EXCEPT !.heap = r.heap, !.before = cp.heap, !.copy = r.copy,
                            !.last = IF r.status = "ok" THEN "deepcopy" ELSE "deepcopy_raised"]
    /\ UNCHANGED Others

\* d = layer._param_dict
ReadParamDict ==
    /\ cp.pd = None
    /\ cp' = [cp EXCEPT !.pd = Some(ParamDict(View(cp.heap, cp.orig[1]))), !.before = cp.heap,
                        !.last = "param_dict", !.rebuilt = None]
    /\ UNCHANGED Others

\* ExpLeak(**d)
Reconstruct ==
    /\ cp.pd # None
    /\ cp.last = "param_dict"
    /\ cp.pd[1].status = "ok"
    /\ cp' = [cp EXCEPT !.rebuilt = Some(ExpLeakFromDict(cp.pd[1].dict)), !.before = cp.heap,
                        !.last = "reconstruct"]
    /\ UNCHANGED Others

NextCopy == MutateOrig \/ MutateCopy \/ DeepCopy \/ ReadParamDict \/ Reconstruct

SpecCopy == InitCopy /\ [][NextCopy]_vars

\* C5 (as claimed): on every ExpLeak instance reading _param_dict succeeds,
\* and the instance built from the dictionary has the same decay factor, the
\* same train_alphas and the same threshold_low.
C5_ParamDictRebuildsLayer ==
    /\ cp.pd # None => cp.pd[1].status = "ok"
    /\ cp.last = "reconstruct" =>
          LET L == View(cp.heap, cp.orig[1])
              R == cp.rebuilt[1]
          IN  /\ alpha_leak_calculated(R) = alpha_leak_calculated(L)
              /\ R.train_alphas = L.train_alphas
              /\ R.threshold_low = L.threshold_low

Names(o) ==
    {"v_mem"} \cup (IF o.tau_leak = Absent THEN {} ELSE {"tau_leak"})
              \cup (IF o.alpha_leak = Absent THEN {} ELSE {"alpha_leak"})

Ref(o, name) == IF name = "v_mem" THEN o.v_mem ELSE o[name][1]

Untouched(o) == \A n \in Names(o) : cp.heap[Ref(o, n)] = cp.before[Ref(o, n)]

\* C4 (as claimed): deepcopy of a layer, plain or squeeze-wrapped, gives a
\* copy with equal parameters, buffers and configuration fields, each
\* parameter and buffer a distinct object; modifying the copy afterwards
\* leaves the original as it was, and the other way round.
C4_DeepCopyEqualAndDistinct ==
    /\ cp.last # "deepcopy_raised"
    /\ cp.last = "deepcopy" =>
          LET o == cp.orig[1]
              c == cp.copy[1]
          IN  /\ Names(c) = Names(o)
              /\ \A n \in Names(o) \cap Names(c) :
                    /\ cp.heap[Ref(c, n)] = cp.heap[Ref(o, n)]
                    /\ Ref(c, n) # Ref(o, n)
              /\ c.cls = o.cls
              /\ c.batch_size = o.batch_size
              /\ c.num_timesteps = o.num_timesteps
              /\ c.threshold_low = o.threshold_low
              /\ c.train_alphas = o.train_alphas
    /\ cp.last = "mutate_copy" => Untouched(cp.orig[1])
    /\ (cp.last = "mutate_orig" /\ cp.copy # None) => Untouched(cp.copy[1])

====
